---- MODULE Spec2Model ----
(***************************************************************************)
(* A model of the postbus SMTP session (src/src/session.rs) and of the     *)
(* command parser it drives (src/src/parser/mod.rs).  Client input is a    *)
(* sequence of one-character strings; a read delivers one chunk of it.     *)
(***************************************************************************)
EXTENDS Integers, Sequences, FiniteSets, TLC

(***************************************************************************)
(* Characters and character classes.                                       *)
(***************************************************************************)
CR == "\r"
LF == "\n"
CRLF == <<CR, LF>>

Digits == {"0", "1", "2", "3", "4", "5", "6", "7", "8", "9"}

LowerSeq ==
  <<"a", "b", "c", "d", "e", "f", "g", "h", "i", "j", "k", "l", "m",
    "n", "o", "p", "q", "r", "s", "t", "u", "v", "w", "x", "y", "z">>

UpperSeq ==
  <<"A", "B", "C", "D", "E", "F", "G", "H", "I", "J", "K", "L", "M",
    "N", "O", "P", "Q", "R", "S", "T", "U", "V", "W", "X", "Y", "Z">>

Letters == {LowerSeq[i] : i \in 1..26} \cup {UpperSeq[i] : i \in 1..26}

\* nom::character::is_alphanumeric
is_alphanumeric(c) == c \in Letters \cup Digits

\* The grave accent (96), which a TLA+ string cannot hold.
Backtick == "grave"

\* The special characters that is_a accepts in parse_atext.
AtextSpecials ==
  {"!", "#", "$", "%", "&", "'", "*", "+", "-", "/", "=", "?", "^", "_",
   Backtick, "{", "|", "}", "~"}

\* The printable ASCII characters 32..=126 other than the double quote (34)
\* and the backslash (92).
QtextChars ==
  Letters \cup Digits \cup AtextSpecials \cup
  {" ", "(", ")", ",", ".", ":", ";", "<", ">", "@", "[", "]"}

PrintableChars == QtextChars \cup {"\"", "\\"}

\* The case folding of tag_no_case.
ToUpper(c) ==
  IF \E i \in 1..26 : LowerSeq[i] = c
    THEN UpperSeq[CHOOSE i \in 1..26 : LowerSeq[i] = c]
    ELSE c

(***************************************************************************)
(* Option values (Rust's Option<T>).                                       *)
(***************************************************************************)
None == [tag |-> "None"]
Some(v) == [tag |-> "Some", val |-> v]

(***************************************************************************)
(* The address grammar.  A parser takes the input s and the position i of  *)
(* the next character, and returns the position after what it consumed,    *)
(* or Fail when it fails or when i is Fail already, so that a sequence of  *)
(* parsers is their composition.  A failing branch of many0 or opt         *)
(* restores the position, as nom does.                                     *)
(***************************************************************************)
Fail == 0

\* tag(c) for a single character c.
tag(c, s, i) == IF i # Fail /\ i <= Len(s) /\ s[i] = c THEN i + 1 ELSE Fail

\* opt(tag(c))
opt_tag(c, s, i) == IF i # Fail /\ i <= Len(s) /\ s[i] = c THEN i + 1 ELSE i

\* take_while_m_n(1, 1, is_alphanumeric)
parse_letdig(s, i) ==
  IF i # Fail /\ i <= Len(s) /\ is_alphanumeric(s[i]) THEN i + 1 ELSE Fail

\* many0(take_while_m_n(1, 1, |c| is_alphanumeric(c) || c == '-')): the
\* first position from i on that holds neither an alphanumeric nor '-'.
RECURSIVE many0_ldh(_, _)
many0_ldh(s, i) ==
  IF i # Fail /\ i <= Len(s) /\ (is_alphanumeric(s[i]) \/ s[i] = "-")
    THEN many0_ldh(s, i + 1)
    ELSE i

\* recognize(pair(many0(letter, digit or '-'), parse_letdig)): the greedy
\* many0 leaves no alphanumeric for parse_letdig.
parse_ldhstr(s, i) == parse_letdig(s, many0_ldh(s, i))

\* many0(parse_ldhstr)
RECURSIVE many0_ldhstr(_, _)
many0_ldhstr(s, i) ==
  IF i = Fail \/ parse_ldhstr(s, i) \in {Fail, i}
    THEN i
    ELSE many0_ldhstr(s, parse_ldhstr(s, i))

\* recognize(pair(parse_letdig, many0(parse_ldhstr)))
parse_subdomain(s, i) == many0_ldhstr(s, parse_letdig(s, i))

\* many0(pair(opt(tag(".")), parse_subdomain))
RECURSIVE many0_dot_subdomain(_, _)
many0_dot_subdomain(s, i) ==
  IF i = Fail \/ parse_subdomain(s, opt_tag(".", s, i)) = Fail
    THEN i
    ELSE many0_dot_subdomain(s, parse_subdomain(s, opt_tag(".", s, i)))

\* parse_domain that takes a dot behind the last label.
parse_domain_takes_last_dot(s, i) ==
  opt_tag(".", s, many0_dot_subdomain(s, parse_subdomain(s, i)))

\* recognize(pair(parse_subdomain, many0(pair(opt(tag(".")), parse_subdomain))))
parse_domain(s, i) == many0_dot_subdomain(s, parse_subdomain(s, i))

\* is_a(specials): one or more special characters.
RECURSIVE many0_special(_, _)
many0_special(s, i) ==
  IF i <= Len(s) /\ s[i] \in AtextSpecials THEN many0_special(s, i + 1) ELSE i

\* alt((take_while_m_n(1, 1, is_alphanumeric), is_a(specials)))
parse_atext(s, i) ==
  IF i = Fail \/ i > Len(s) THEN Fail
  ELSE IF is_alphanumeric(s[i]) THEN i + 1
  ELSE IF s[i] \in AtextSpecials THEN many0_special(s, i)
  ELSE Fail

\* many0(pair(opt(tag(".")), parse_atext))
RECURSIVE many0_dot_atext(_, _)
many0_dot_atext(s, i) ==
  IF i = Fail \/ parse_atext(s, opt_tag(".", s, i)) = Fail
    THEN i
    ELSE many0_dot_atext(s, parse_atext(s, opt_tag(".", s, i)))

\* recognize(pair(parse_atext, many0(pair(opt(tag(".")), parse_atext))))
parse_dot_string(s, i) == many0_dot_atext(s, parse_atext(s, i))

\* take_while_m_n(1, 1, qtext)
parse_qtext_smtp(s, i) ==
  IF i # Fail /\ i <= Len(s) /\ s[i] \in QtextChars THEN i + 1 ELSE Fail

\* preceded(tag(backslash), take_while_m_n(1, 1, printable))
parse_quotedpair_smtp(s, i) ==
  IF i # Fail /\ i + 1 <= Len(s) /\ s[i] = "\\" /\ s[i + 1] \in PrintableChars
    THEN i + 2
    ELSE Fail

\* alt((parse_qtext_smtp, parse_quotedpair_smtp))
parse_qcontent_smtp(s, i) ==
  IF parse_qtext_smtp(s, i) # Fail
    THEN parse_qtext_smtp(s, i)
    ELSE parse_quotedpair_smtp(s, i)

\* many0(parse_qcontent_smtp)
RECURSIVE many0_qcontent(_, _)
many0_qcontent(s, i) ==
  IF i = Fail \/ parse_qcontent_smtp(s, i) = Fail
    THEN i
    ELSE many0_qcontent(s, parse_qcontent_smtp(s, i))

\* A parsed local part: where it ends and its text; pos is Fail for none.
NoLocalpart == [pos |-> Fail, val |-> <<>>]

\* The content from i + 1 on, given that it ends before j, closed by a quote.
quoted_content(s, i, j) ==
  IF j # Fail /\ j > i + 1 /\ j <= Len(s) /\ s[j] = "\""
    THEN [pos |-> j + 1, val |-> SubSeq(s, i + 1, j - 1)]
    ELSE NoLocalpart

\* delimited(tag(quote), recognize(many1(parse_qcontent_smtp)), tag(quote)):
\* the value is the content between the quotes.
parse_quoted_string(s, i) ==
  quoted_content(s, i, many0_qcontent(s, tag("\"", s, i)))

\* The dot-string that ends before j, or else a quoted string.
dot_string_or_quoted(s, i, j) ==
  IF j # Fail THEN [pos |-> j, val |-> SubSeq(s, i, j - 1)]
  ELSE parse_quoted_string(s, i)

\* alt((parse_dot_string, parse_quoted_string))
parse_localpart(s, i) == dot_string_or_quoted(s, i, parse_dot_string(s, i))

\* A parsed mailbox: where it ends, its local part and its domain.
NoMailbox == [pos |-> Fail, local |-> <<>>, domain |-> <<>>]

\* The mailbox of local part l and of the domain that ends before j.
mailbox_of(s, l, j) ==
  IF j = Fail THEN NoMailbox
  ELSE [pos |-> j, local |-> l.val, domain |-> SubSeq(s, l.pos + 1, j - 1)]

\* The local part l, then tag("@"), then parse_domain.
mailbox_after(s, l) == mailbox_of(s, l, parse_domain(s, tag("@", s, l.pos)))

\* tuple((parse_localpart, tag("@"), parse_domain))
parse_mailbox(s, i) == mailbox_after(s, parse_localpart(s, i))

(***************************************************************************)
(* The command parser: one line, then a buffer of lines.                   *)
(***************************************************************************)
T_EHLO == <<"E", "H", "L", "O", " ">>
T_HELO == <<"H", "E", "L", "O", " ">>
T_MAIL == <<"M", "A", "I", "L", " ", "F", "R", "O", "M", ":">>
T_RCPT == <<"R", "C", "P", "T", " ", "T", "O", ":">>
T_DATA == <<"D", "A", "T", "A">>
T_RSET == <<"R", "S", "E", "T">>
T_QUIT == <<"Q", "U", "I", "T">>

\* tag_no_case(t) at position i of s.
tag_no_case(t, s, i) ==
  IF /\ i # Fail
     /\ i + Len(t) - 1 <= Len(s)
     /\ \A k \in 1..Len(t) : ToUpper(s[i + k - 1]) = ToUpper(t[k])
    THEN i + Len(t)
    ELSE Fail

\* The command name(Domain) when the domain from i ends the line at j.
domain_command(name, line, i, j) ==
  IF j # Fail /\ j = Len(line) + 1
    THEN Some([cmd |-> name, domain |-> SubSeq(line, i, j - 1)])
    ELSE None

\* The verb, then a Domain from i on.
domain_argument(name, line, i) ==
  domain_command(name, line, i, parse_domain(line, i))

\* A verb followed by a Domain that ends the line.
parse_domain_command(name, t, line) ==
  domain_argument(name, line, tag_no_case(t, line, 1))

\* The command name(Mailbox) when the closing bracket after m ends the line.
mailbox_command(name, line, m) ==
  IF tag(">", line, m.pos) # Fail /\ tag(">", line, m.pos) = Len(line) + 1
    THEN Some([cmd |-> name,
               mailbox |-> [local |-> m.local, domain |-> m.domain]])
    ELSE None

\* A verb, an optional single space, and a mailbox in angle brackets that
\* ends the line.
parse_mailbox_command(name, t, line) ==
  mailbox_command(name, line,
    parse_mailbox(line,
      tag("<", line, opt_tag(" ", line, tag_no_case(t, line, 1)))))

\* A bare verb that is the whole line.
parse_bare_command(name, t, line) ==
  IF tag_no_case(t, line, 1) = Len(line) + 1 THEN Some([cmd |-> name]) ELSE None

\* alt of two parsers: the first result unless it is a failure.
or_else(first, second) == IF first # None THEN first ELSE second

\* The per-line grammar: the first alternative that matches the whole line.
parse_command(line) ==
  or_else(parse_domain_command("EHLO", T_EHLO, line),
  or_else(parse_domain_command("HELO", T_HELO, line),
  or_else(parse_mailbox_command("FROM", T_MAIL, line),
  or_else(parse_mailbox_command("RCPT", T_RCPT, line),
  or_else(parse_bare_command("DATA", T_DATA, line),
  or_else(parse_bare_command("RSET", T_RSET, line),
          parse_bare_command("QUIT", T_QUIT, line)))))))

\* A line without the carriage return that precedes its line feed.
strip_cr(line) ==
  IF Len(line) > 0 /\ line[Len(line)] = CR
    THEN SubSeq(line, 1, Len(line) - 1)
    ELSE line

\* The pieces of buf between its line feeds, the last being what follows
\* the last line feed (empty when buf ends in one); from is where the
\* current piece starts and i the position examined.
RECURSIVE split_from(_, _, _)
split_from(buf, from, i) ==
  IF i > Len(buf) THEN <<SubSeq(buf, from, Len(buf))>>
  ELSE IF buf[i] = LF
    THEN <<SubSeq(buf, from, i - 1)>> \o split_from(buf, i + 1, i + 1)
  ELSE split_from(buf, from, i + 1)

split_lf(buf) == split_from(buf, 1, 1)

\* One entry of the buffered parser's result.
parse_line(line) == [line |-> line, command |-> parse_command(line)]

\* parse_pieces with no entry for a line that is no command.
parse_pieces_skips_failures(pieces) ==
  [cmds |-> SelectSeq([k \in 1..(Len(pieces) - 1) |->
                         parse_line(strip_cr(pieces[k]))],
                      LAMBDA e : e.command # None),
   rem |-> pieces[Len(pieces)]]

\* The result of the buffered parser from the pieces of its buffer.
parse_pieces(pieces) ==
  [cmds |-> [k \in 1..(Len(pieces) - 1) |-> parse_line(strip_cr(pieces[k]))],
   rem |-> pieces[Len(pieces)]]

\* The buffered parser: one (line, command) entry per complete line, and the
\* text after the last complete line.
parse(buf) == parse_pieces(split_lf(buf))

(***************************************************************************)
(* The DATA body decoder.                                                  *)
(***************************************************************************)
\* lines[1], CR LF, lines[2], ... with no separator after the last one.
RECURSIVE join_crlf(_)
join_crlf(lines) ==
  IF Len(lines) = 0 THEN <<>>
  ELSE IF Len(lines) = 1 THEN lines[1]
  ELSE lines[1] \o CRLF \o join_crlf(Tail(lines))

\* The reversal of dot-stuffing on one body line.
unstuff(line) ==
  IF Len(line) > 0 /\ line[1] = "." THEN Tail(line) ELSE line

\* The index of the first line that is a single ".", or Len(lines) + 1.
RECURSIVE end_of_data(_, _)
end_of_data(lines, k) ==
  IF k > Len(lines) \/ lines[k] = <<".">> THEN k ELSE end_of_data(lines, k + 1)

\* The decoder's result from the lines of its buffer, e being end_of_data.
decode_lines(lines, e) ==
  [ended |-> e <= Len(lines),
   body |-> join_crlf([k \in 1..(e - 1) |-> unstuff(lines[k])]),
   tail |-> join_crlf(SubSeq(lines, e + 1, Len(lines)))]

\* The decoder's result from the pieces of its buffer.
decode_pieces(pieces) ==
  decode_lines([k \in 1..Len(pieces) |-> strip_cr(pieces[k])],
               end_of_data([k \in 1..Len(pieces) |-> strip_cr(pieces[k])], 1))

parse_data_lines(buf) == decode_pieces(split_lf(buf))

(***************************************************************************)
(* The session: SmtpState, the command handlers and SmtpSession::input.    *)
(***************************************************************************)
\* The recipient limit of process_rcpt.
MaxRecipients == 100

\* The variants of Response.
Responses ==
  {"Goodbye", "Ok", "StartData", "TooManyRecipients", "SyntaxError",
   "OutOfSequence", "NotImplemented", "RecipientNotLocal", "InvalidRecipient",
   "TransactionFailed", "Greeting", "Helo", "Ehlo"}

\* SmtpState::default()
DefaultState ==
  [receiving_data |-> FALSE,
   domain |-> None,
   from |-> None,
   recipients |-> <<>>,
   data |-> <<>>]

\* What the session does that its peer and its handler observe.
SendEvent(resp, ok) == [ev |-> "send", resp |-> resp, ok |-> ok]
SaveEvent(st, ret) == [ev |-> "save", arg |-> st, ret |-> ret]
LocalEvent(m, ret) == [ev |-> "recipient_local", arg |-> m, ret |-> ret]
InputEvent(full_input) == [ev |-> "input", full_input |-> full_input]
CloseEvent(why) == [ev |-> "close", why |-> why]
\* The line an iteration of the loop of input processes (its debug! line).
CommandEvent(entry) == [ev |-> "command", entry |-> entry]

process_helo(st, domain) ==
  [state |-> [st EXCEPT !.domain = Some(domain)], resp |-> "Helo", calls |-> <<>>]

\* process_ehlo that starts the transaction afresh.
process_ehlo_clears_transaction(st, domain) ==
  [state |-> [st EXCEPT !.domain = Some(domain), !.from = None,
                        !.recipients = <<>>, !.data = <<>>],
   resp |-> "Ehlo", calls |-> <<>>]

process_ehlo(st, domain) ==
  [state |-> [st EXCEPT !.domain = Some(domain)], resp |-> "Ehlo", calls |-> <<>>]

\* process_from without its guard on domain.
process_from_unguarded(st, sender) ==
  [state |-> [st EXCEPT !.from = Some(sender)], resp |-> "Ok", calls |-> <<>>]

process_from(st, sender) ==
  IF st.domain = None
    THEN [state |-> st, resp |-> "OutOfSequence", calls |-> <<>>]
    ELSE [state |-> [st EXCEPT !.from = Some(sender)], resp |-> "Ok",
          calls |-> <<>>]

\* process_rcpt with the limit compared by > instead of >=.
process_rcpt_limit_off_by_one(st, recipient, local) ==
  IF st.domain = None
    THEN [state |-> st, resp |-> "OutOfSequence", calls |-> <<>>]
  ELSE IF Len(st.recipients) > MaxRecipients
    THEN [state |-> st, resp |-> "TooManyRecipients", calls |-> <<>>]
  ELSE IF ~local
    THEN [state |-> st, resp |-> "RecipientNotLocal",
          calls |-> <<LocalEvent(recipient, local)>>]
  ELSE [state |-> [st EXCEPT !.recipients = Append(@, recipient)],
        resp |-> "Ok",
        calls |-> <<LocalEvent(recipient, local)>>]

\* process_rcpt with the recipient pushed before the handler is asked.
process_rcpt_push_first(st, recipient, local) ==
  IF st.domain = None
    THEN [state |-> st, resp |-> "OutOfSequence", calls |-> <<>>]
  ELSE IF Len(st.recipients) >= MaxRecipients
    THEN [state |-> st, resp |-> "TooManyRecipients", calls |-> <<>>]
  ELSE [state |-> [st EXCEPT !.recipients = Append(@, recipient)],
        resp |-> IF local THEN "Ok" ELSE "RecipientNotLocal",
        calls |-> <<LocalEvent(recipient, local)>>]

\* process_rcpt with the handler asked before the limit is checked.
process_rcpt_limit_after_handler(st, recipient, local) ==
  IF st.domain = None
    THEN [state |-> st, resp |-> "OutOfSequence", calls |-> <<>>]
  ELSE IF ~local
    THEN [state |-> st, resp |-> "RecipientNotLocal",
          calls |-> <<LocalEvent(recipient, local)>>]
  ELSE IF Len(st.recipients) >= MaxRecipients
    THEN [state |-> st, resp |-> "TooManyRecipients",
          calls |-> <<LocalEvent(recipient, local)>>]
  ELSE [state |-> [st EXCEPT !.recipients = Append(@, recipient)],
        resp |-> "Ok",
        calls |-> <<LocalEvent(recipient, local)>>]

\* process_rcpt with the handler asked before anything is checked.
process_rcpt_asks_first(st, recipient, local) ==
  IF st.domain = None
    THEN [state |-> st, resp |-> "OutOfSequence",
          calls |-> <<LocalEvent(recipient, local)>>]
  ELSE IF Len(st.recipients) >= MaxRecipients
    THEN [state |-> st, resp |-> "TooManyRecipients",
          calls |-> <<LocalEvent(recipient, local)>>]
  ELSE IF ~local
    THEN [state |-> st, resp |-> "RecipientNotLocal",
          calls |-> <<LocalEvent(recipient, local)>>]
  ELSE [state |-> [st EXCEPT !.recipients = Append(@, recipient)],
        resp |-> "Ok",
        calls |-> <<LocalEvent(recipient, local)>>]

\* local is what handler.recipient_local answers when it is asked.
process_rcpt(st, recipient, local) ==
  IF st.domain = None
    THEN [state |-> st, resp |-> "OutOfSequence", calls |-> <<>>]
  ELSE IF Len(st.recipients) >= MaxRecipients
    THEN [state |-> st, resp |-> "TooManyRecipients", calls |-> <<>>]
  ELSE IF ~local
    THEN [state |-> st, resp |-> "RecipientNotLocal",
          calls |-> <<LocalEvent(recipient, local)>>]
  ELSE [state |-> [st EXCEPT !.recipients = Append(@, recipient)],
        resp |-> "Ok",
        calls |-> <<LocalEvent(recipient, local)>>]

process_data(st) ==
  IF st.domain = None
    THEN [state |-> st, resp |-> "OutOfSequence", calls |-> <<>>]
  ELSE IF st.from = None
    THEN [state |-> st, resp |-> "OutOfSequence", calls |-> <<>>]
  ELSE IF Len(st.recipients) <= 0
    THEN [state |-> st, resp |-> "OutOfSequence", calls |-> <<>>]
  ELSE [state |-> [st EXCEPT !.receiving_data = TRUE], resp |-> "StartData",
        calls |-> <<>>]

\* process_reset that leaves the recipients in place.
process_reset_keeps_recipients(st) ==
  [state |-> [st EXCEPT !.from = None, !.data = <<>>],
   resp |-> "Ok", calls |-> <<>>]

process_reset(st) ==
  [state |-> [st EXCEPT !.from = None, !.recipients = <<>>, !.data = <<>>],
   resp |-> "Ok", calls |-> <<>>]

process_quit(st) == [state |-> st, resp |-> "Goodbye", calls |-> <<>>]

process_command(st, command, local) ==
  CASE command.cmd = "HELO" -> process_helo(st, command.domain)
    [] command.cmd = "EHLO" -> process_ehlo(st, command.domain)
    [] command.cmd = "FROM" -> process_from(st, command.mailbox)
    [] command.cmd = "RCPT" -> process_rcpt(st, command.mailbox, local)
    [] command.cmd = "DATA" -> process_data(st)
    [] command.cmd = "RSET" -> process_reset(st)
    [] command.cmd = "QUIT" -> process_quit(st)

\* save_response with the two arms exchanged.
save_response_swapped(saved) == IF saved THEN "TransactionFailed" ELSE "Ok"

\* The reply to a completed body: what handler.save answered.
save_response(saved) == IF saved THEN "Ok" ELSE "TransactionFailed"

\* data_ended going on to the command parser after a failed write.
data_ended_ignores_failed_write(pushed, tail, saved, sent) ==
  [state |-> [pushed EXCEPT !.receiving_data = FALSE, !.data = <<>>],
   events |-> <<SaveEvent(pushed, saved), SendEvent(save_response(saved), sent)>>,
   quit |-> FALSE,
   full_input |-> tail]

\* data_ended that hands no tail to the command parser.
data_ended_drops_tail(pushed, tail, saved, sent) ==
  [state |-> IF sent
               THEN [pushed EXCEPT !.receiving_data = FALSE, !.data = <<>>]
               ELSE pushed,
   events |-> <<SaveEvent(pushed, saved), SendEvent(save_response(saved), sent)>>,
   quit |-> ~sent,
   full_input |-> <<>>]

\* data_ended that leaves the accumulated body in place.
data_ended_keeps_data(pushed, tail, saved, sent) ==
  [state |-> IF sent
               THEN [pushed EXCEPT !.receiving_data = FALSE]
               ELSE pushed,
   events |-> <<SaveEvent(pushed, saved), SendEvent(save_response(saved), sent)>>,
   quit |-> ~sent,
   full_input |-> tail]

\* The DATA branch of input once the body is complete: pushed is the state
\* with the decoded body appended, saved what handler.save answers, sent
\* whether the write of its reply succeeds.
data_ended(pushed, tail, saved, sent) ==
  [state |-> IF sent
               THEN [pushed EXCEPT !.receiving_data = FALSE, !.data = <<>>]
               ELSE pushed,
   events |-> <<SaveEvent(pushed, saved), SendEvent(save_response(saved), sent)>>,
   quit |-> ~sent,
   full_input |-> tail]

\* data_decoded with the decoder's body and tail exchanged.
data_decoded_pushes_tail(st, d, saved, sent) ==
  IF d.ended
    THEN data_ended([st EXCEPT !.data = @ \o d.tail], d.body, saved, sent)
    ELSE [state |-> [st EXCEPT !.data = @ \o d.tail], events |-> <<>>,
          quit |-> FALSE, full_input |-> d.body]

\* The DATA branch of input, d being what the decoder returned.
data_decoded(st, d, saved, sent) ==
  IF d.ended
    THEN data_ended([st EXCEPT !.data = @ \o d.body], d.tail, saved, sent)
    ELSE [state |-> [st EXCEPT !.data = @ \o d.body], events |-> <<>>,
          quit |-> FALSE, full_input |-> d.tail]

\* The first half of input.  quit is input returning true; full_input is
\* what goes to the command parser.
input_data(st, full_input, saved, sent) ==
  IF st.receiving_data
    THEN data_decoded(st, parse_data_lines(full_input), saved, sent)
    ELSE [state |-> st, events |-> <<>>, quit |-> FALSE,
          full_input |-> full_input]

\* command_processed that returns only when the write fails.
command_processed_goodbye_continues(entry, r, sent) ==
  [state |-> r.state,
   events |-> <<CommandEvent(entry)>> \o r.calls \o <<SendEvent(r.resp, sent)>>,
   quit |-> ~sent]

\* The reply to a processed command: r is what process_command returned.
command_processed(entry, r, sent) ==
  [state |-> r.state,
   events |-> <<CommandEvent(entry)>> \o r.calls \o <<SendEvent(r.resp, sent)>>,
   quit |-> r.resp = "Goodbye" \/ ~sent]

\* A line that is no command is answered SyntaxError and nothing else.
input_command_no_syntax_reply(st, entry, local, sent) ==
  IF entry.command = None
    THEN [state |-> st, events |-> <<CommandEvent(entry)>>, quit |-> FALSE]
    ELSE command_processed(entry,
           process_command(st, entry.command.val, local), sent)

\* input_command that returns after a line that is no command.
input_command_syntax_error_quits(st, entry, local, sent) ==
  IF entry.command = None
    THEN [state |-> st,
          events |-> <<CommandEvent(entry), SendEvent("SyntaxError", sent)>>,
          quit |-> TRUE]
    ELSE command_processed(entry,
           process_command(st, entry.command.val, local), sent)

\* input_command answering a line that is no command with NotImplemented.
input_command_not_implemented(st, entry, local, sent) ==
  IF entry.command = None
    THEN [state |-> st,
          events |-> <<CommandEvent(entry), SendEvent("NotImplemented", sent)>>,
          quit |-> ~sent]
    ELSE command_processed(entry,
           process_command(st, entry.command.val, local), sent)

\* One iteration of the loop of input over the parsed lines: the entry is
\* processed and its reply is sent.  quit is input returning true.
input_command(st, entry, local, sent) ==
  IF entry.command = None
    THEN [state |-> st,
          events |-> <<CommandEvent(entry), SendEvent("SyntaxError", sent)>>,
          quit |-> ~sent]
    ELSE command_processed(entry,
           process_command(st, entry.command.val, local), sent)

(***************************************************************************)
(* SmtpSession::input as a whole, for a handler that accepts every         *)
(* recipient and message and a peer that takes every reply.  A session is  *)
(* [state, remaining, events, quit]: events is what it has sent and asked  *)
(* so far, quit whether input has returned true.                           *)
(***************************************************************************)
\* The loop of input after an iteration returned r.
loop_step(acc, r) ==
  [state |-> r.state, events |-> acc.events \o r.events, quit |-> r.quit]

\* The loop of input over the parsed lines.
RECURSIVE input_loop(_, _)
input_loop(acc, entries) ==
  IF entries = <<>> \/ acc.quit THEN acc
  ELSE input_loop(
         loop_step(acc, input_command(acc.state, Head(entries), TRUE, TRUE)),
         Tail(entries))

\* input from the store of the parser's tail on: acc is what its loop made.
input_looped(session, rem, acc) ==
  [state |-> acc.state, remaining |-> rem,
   events |-> session.events \o acc.events, quit |-> acc.quit]

\* input after its DATA branch returned d and the parser p.
input_parsed(session, d, p) ==
  IF d.quit
    THEN [state |-> d.state, remaining |-> session.remaining,
          events |-> session.events \o d.events, quit |-> TRUE]
    ELSE input_looped(session, p.rem,
           input_loop([state |-> d.state, events |-> d.events, quit |-> FALSE],
                      p.cmds))

\* input after its DATA branch returned d.
input_decoded(session, d) == input_parsed(session, d, parse(d.full_input))

\* handle reads chunk and calls input, unless it has returned.
input(session, chunk) ==
  IF session.quit THEN session
  ELSE input_decoded(session,
         input_data(session.state, session.remaining \o chunk, TRUE, TRUE))

(***************************************************************************)
(* The client: the lines it sends and the chunks its bytes arrive in.      *)
(***************************************************************************)
L_HELO == T_HELO \o <<"a">>
L_EHLO == T_EHLO \o <<"b">>
L_MAIL == T_MAIL \o <<"<", "x", "@", "a", ">">>
L_RCPT_Y == T_RCPT \o <<"<", "y", "@", "a", ">">>
L_RCPT_Z == T_RCPT \o <<" ", "<", "z", "@", "b", ">">>
L_NOOP == <<"N", "O", "O", "P">>
L_BODY == <<"h", "i">>
L_STUFFED == <<".", ".", "x">>
L_DOT == <<".">>

Line(l) == l \o CRLF

\* The mailboxes of L_RCPT_Y and L_RCPT_Z.
MailboxY == [local |-> <<"y">>, domain |-> <<"a">>]
MailboxZ == [local |-> <<"z">>, domain |-> <<"b">>]

\* The client sends the second mailbox only among the first MaxMixed
\* recipients, a body of at most MaxData characters, an unfinished line of
\* at most MaxRemaining characters and, unless it sends recipients in bulk,
\* at most MaxRcpt recipients.
MaxMixed == 1
MaxData == 8
MaxRemaining == 2
MaxRcpt == 2

CommandChunks ==
  {Line(L_HELO), Line(L_EHLO), Line(L_MAIL), Line(T_DATA), Line(T_RSET),
   Line(T_QUIT), Line(L_NOOP)}

RcptChunks == {Line(L_RCPT_Y), Line(L_RCPT_Z), Line(L_MAIL) \o Line(L_RCPT_Y)}

BodyChunks ==
  {Line(L_BODY), Line(L_STUFFED), Line(L_DOT), Line(L_BODY) \o Line(L_DOT)}

PipelinedChunks ==
  {Line(T_DATA) \o Line(T_RSET),
   Line(T_DATA) \o Line(T_RSET) \o Line(T_DATA),
   Line(T_DATA) \o Line(L_BODY) \o Line(L_DOT),
   Line(L_DOT) \o Line(T_QUIT),
   Line(T_QUIT) \o Line(T_RSET),
   Line(L_NOOP) \o Line(L_HELO)}

PartialChunks ==
  {<<"R", "S">>, <<"E", "T">> \o CRLF, Line(L_NOOP) \o <<"R", "S">>}

\* What the client may send next.
Chunks(st) ==
  CommandChunks \cup BodyChunks \cup PipelinedChunks \cup PartialChunks
    \cup (IF Len(st.recipients) < MaxRcpt THEN RcptChunks ELSE {})

\* What a client that sends recipients in bulk may send next.
BulkChunks(st) ==
  {Line(L_HELO), Line(L_MAIL), Line(L_RCPT_Y), Line(T_DATA), Line(L_DOT),
   Line(T_RSET)}
    \cup (IF Len(st.recipients) < MaxMixed THEN {Line(L_RCPT_Z)} ELSE {})

(***************************************************************************)
(* A client that sends whole message bodies: the lines of a body, each     *)
(* dot-stuffed, the end-of-data marker, and what it pipelines behind it.   *)
(***************************************************************************)
MaxBodyLines == 2

BodyLines == {<<>>, L_BODY, L_DOT, <<".", "x">>, <<".", ".">>}

Bodies == UNION {[1..n -> BodyLines] : n \in 0..MaxBodyLines}

\* Dot-stuffing of one body line.
stuff(line) ==
  IF Len(line) > 0 /\ line[1] = "." THEN <<".">> \o line ELSE line

\* The lines of a body on the wire, each stuffed and terminated.
RECURSIVE encode_lines(_)
encode_lines(body) ==
  IF body = <<>> THEN <<>>
  ELSE Line(stuff(Head(body))) \o encode_lines(Tail(body))

\* A body on the wire, with the marker line behind it.
EncodedBody(body) == encode_lines(body) \o Line(L_DOT)

\* What the client sends behind the marker (sent), that text with every
\* line terminator written as CR LF (crlf), its complete lines (lines) and
\* its unfinished last line (rest).
DataTails ==
  {[sent |-> <<>>, crlf |-> <<>>, lines |-> <<>>, rest |-> <<>>],
   [sent |-> Line(T_RSET), crlf |-> Line(T_RSET),
    lines |-> <<T_RSET>>, rest |-> <<>>],
   [sent |-> <<"R", "S">>, crlf |-> <<"R", "S">>,
    lines |-> <<>>, rest |-> <<"R", "S">>],
   [sent |-> Line(L_NOOP) \o <<"R", "S">>, crlf |-> Line(L_NOOP) \o <<"R", "S">>,
    lines |-> <<L_NOOP>>, rest |-> <<"R", "S">>],
   [sent |-> Line(T_RSET) \o Line(L_NOOP), crlf |-> Line(T_RSET) \o Line(L_NOOP),
    lines |-> <<T_RSET, L_NOOP>>, rest |-> <<>>],
   [sent |-> T_RSET \o <<LF>>, crlf |-> Line(T_RSET),
    lines |-> <<T_RSET>>, rest |-> <<>>]}

EnvelopeChunks(st) ==
  {Line(L_EHLO), Line(T_DATA)}
    \cup (IF Len(st.recipients) < MaxRcpt
            THEN {Line(L_MAIL) \o Line(L_RCPT_Y)} ELSE {})

\* What a client that sends whole bodies may send next.
DecoderChunks(st) ==
  IF st.receiving_data
    THEN {EncodedBody(body) \o t.sent : body \in Bodies, t \in DataTails}
    ELSE EnvelopeChunks(st)

(***************************************************************************)
(* A client that sends several lines in one write, the last one possibly   *)
(* unfinished.                                                             *)
(***************************************************************************)
MaxLines == 2

ParserLines == {L_HELO, L_MAIL, T_RSET, L_NOOP, <<>>}

LineSeqs == UNION {[1..n -> ParserLines] : n \in 0..MaxLines}

\* The start of a line whose end has not arrived.
Suffixes == {<<>>, <<"R", "S">>, <<"M">>}

\* Lines on the wire, each terminated.
RECURSIVE JoinLines(_)
JoinLines(lines) ==
  IF lines = <<>> THEN <<>> ELSE Line(Head(lines)) \o JoinLines(Tail(lines))

ParserChunks == {JoinLines(lines) \o sfx : lines \in LineSeqs, sfx \in Suffixes}

(***************************************************************************)
(* A client that introduces itself under several names.                    *)
(***************************************************************************)
D_PLAIN == <<"h", "o", "s", "t">>
D_DOTTED == <<"a", ".", "b">>
D_HYPHEN == <<"m", "y", "-", "h", "o", "s", "t", ".", "e", "x", "a", "m", "p", "l", "e">>
D_INNER_HYPHEN == <<"a", "-", "b">>
D_LEADING_HYPHEN == <<"-", "a">>
D_TRAILING_HYPHEN == <<"a", "-">>
D_TRAILING_DOT == <<"h", "o", "s", "t", ".">>
D_SPACE == <<"a", " ", "b">>

HelloDomains ==
  {D_PLAIN, D_DOTTED, D_HYPHEN, D_INNER_HYPHEN, D_LEADING_HYPHEN,
   D_TRAILING_HYPHEN, D_TRAILING_DOT, D_SPACE}

HelloVerbs == {T_HELO, T_EHLO}

DomainChunks == {Line(t \o d) : t \in HelloVerbs, d \in HelloDomains}

(***************************************************************************)
(* The session as a state machine: SmtpSession::handle.                    *)
(***************************************************************************)
VARIABLES
  pc,         \* where handle is: "greet", "read", "loop" (in input), "done"
  state,      \* SmtpSession.state
  remaining,  \* SmtpSession.remaining
  cmds,       \* the parsed lines input has not processed
  last        \* what the last step sent and asked the handler

vars == <<pc, state, remaining, cmds, last>>

\* SmtpSession::new
Init ==
  /\ pc = "greet"
  /\ state = DefaultState
  /\ remaining = <<>>
  /\ cmds = <<>>
  /\ last = <<>>

\* Greet going on to read after a failed write.
Greet_ignores_failed_write ==
  /\ pc = "greet"
  /\ \E sent \in BOOLEAN : last' = <<SendEvent("Greeting", sent)>>
  /\ pc' = "read"
  /\ UNCHANGED <<state, remaining, cmds>>

\* handle sends the greeting and returns when the write fails.
Greet ==
  /\ pc = "greet"
  /\ \E sent \in BOOLEAN :
       /\ last' = <<SendEvent("Greeting", sent)>>
       /\ pc' = IF sent THEN "read" ELSE "done"
  /\ UNCHANGED <<state, remaining, cmds>>

\* InputParsed that does not store the parser's tail.
InputParsed_keeps_remaining(full_input, r, p) ==
  /\ state' = r.state
  /\ last' = <<InputEvent(full_input)>> \o r.events
  /\ UNCHANGED remaining
  /\ IF r.quit
       THEN pc' = "done" /\ cmds' = <<>>
       ELSE pc' = "loop" /\ cmds' = p.cmds

\* InputParsed that stores the tail from the last line feed on instead of
\* from behind it.
InputParsed_stores_line_feed(full_input, r, p) ==
  /\ state' = r.state
  /\ last' = <<InputEvent(full_input)>> \o r.events
  /\ IF r.quit
       THEN pc' = "done" /\ cmds' = <<>> /\ UNCHANGED remaining
       ELSE /\ pc' = "loop"
            /\ cmds' = p.cmds
            /\ remaining' = (IF p.cmds = <<>> THEN <<>> ELSE <<LF>>) \o p.rem

\* input after its DATA branch returned r: the parser's result p is stored.
InputParsed(full_input, r, p) ==
  /\ state' = r.state
  /\ last' = <<InputEvent(full_input)>> \o r.events
  /\ IF r.quit
       THEN pc' = "done" /\ cmds' = <<>> /\ UNCHANGED remaining
       ELSE pc' = "loop" /\ cmds' = p.cmds /\ remaining' = p.rem

\* input after its DATA branch returned r.
InputDecoded(full_input, r) == InputParsed(full_input, r, parse(r.full_input))

\* try_read returns a chunk and input runs up to its loop.
ReadInput(chunk) ==
  /\ pc = "read"
  /\ \E saved, sent \in BOOLEAN :
       InputDecoded(remaining \o chunk,
                    input_data(state, remaining \o chunk, saved, sent))
  /\ Len(state'.data) <= MaxData
  /\ Len(remaining') <= MaxRemaining

\* The loop of input after one iteration returned r; when input returns
\* here, cmds keeps the lines it leaves unprocessed.
CommandDone(r) ==
  /\ state' = r.state
  /\ last' = r.events
  /\ pc' = IF r.quit THEN "done" ELSE "loop"
  /\ cmds' = Tail(cmds)

\* One iteration of the loop of input.
ProcessNext ==
  /\ pc = "loop"
  /\ cmds # <<>>
  /\ \E local, sent \in BOOLEAN :
       CommandDone(input_command(state, Head(cmds), local, sent))
  /\ UNCHANGED remaining

\* input returns false: handle waits for the next read.
InputReturn ==
  /\ pc = "loop"
  /\ cmds = <<>>
  /\ pc' = "read"
  /\ last' = <<>>
  /\ UNCHANGED <<state, remaining, cmds>>

\* The peer closed, the bytes were not UTF-8, or the read failed.
ReadClose ==
  /\ pc = "read"
  /\ \E why \in {"eof", "non_utf8", "error"} : last' = <<CloseEvent(why)>>
  /\ pc' = "done"
  /\ UNCHANGED <<state, remaining, cmds>>

\* try_read would block: handle waits again.
ReadWouldBlock ==
  /\ pc = "read"
  /\ UNCHANGED vars

Read == \E chunk \in Chunks(state) : ReadInput(chunk)

ReadBulk == \E chunk \in BulkChunks(state) : ReadInput(chunk)

Next ==
  \/ Greet
  \/ Read
  \/ ProcessNext
  \/ InputReturn
  \/ ReadClose
  \/ ReadWouldBlock

NextBulk ==
  \/ Greet
  \/ ReadBulk
  \/ ProcessNext
  \/ InputReturn
  \/ ReadClose
  \/ ReadWouldBlock

ReadEncoded == \E chunk \in DecoderChunks(state) : ReadInput(chunk)

NextDecoder ==
  \/ Greet
  \/ ReadEncoded
  \/ ProcessNext
  \/ InputReturn

ReadLines == \E chunk \in ParserChunks : ReadInput(chunk)

NextParser ==
  \/ Greet
  \/ ReadLines
  \/ ProcessNext
  \/ InputReturn

ReadDomain == \E chunk \in DomainChunks : ReadInput(chunk)

NextDomain ==
  \/ Greet
  \/ ReadDomain
  \/ ProcessNext
  \/ InputReturn

Spec == Init /\ [][Next]_vars

SpecBulk == Init /\ [][NextBulk]_vars

SpecDecoder == Init /\ [][NextDecoder]_vars

SpecParser == Init /\ [][NextParser]_vars

SpecDomain == Init /\ [][NextDomain]_vars

(***************************************************************************)
(* The service: SmtpService::listen accepts connections and spawns one     *)
(* session per connection.  Under SpecService each variable holds one      *)
(* value per session, and a session is the record of its five values.      *)
(***************************************************************************)
MaxSessions == 2

Sessions == 1..MaxSessions

SessionOf(s) ==
  [pc |-> pc[s], state |-> state[s], remaining |-> remaining[s],
   cmds |-> cmds[s], last |-> last[s]]

\* SmtpSession::new
NewSession ==
  [pc |-> "greet", state |-> DefaultState, remaining |-> <<>>, cmds |-> <<>>,
   last |-> <<>>]

\* handle sends the greeting.
handle_greet(sn, sent) ==
  [sn EXCEPT !.pc = IF sent THEN "read" ELSE "done",
             !.last = <<SendEvent("Greeting", sent)>>]

\* input after its DATA branch returned r and the parser p.
handle_parsed(sn, full_input, r, p) ==
  [pc |-> IF r.quit THEN "done" ELSE "loop",
   state |-> r.state,
   remaining |-> IF r.quit THEN sn.remaining ELSE p.rem,
   cmds |-> IF r.quit THEN <<>> ELSE p.cmds,
   last |-> <<InputEvent(full_input)>> \o r.events]

handle_decoded(sn, full_input, r) ==
  handle_parsed(sn, full_input, r, parse(r.full_input))

\* try_read returns chunk and input runs up to its loop.
handle_read(sn, chunk, saved, sent) ==
  handle_decoded(sn, sn.remaining \o chunk,
                 input_data(sn.state, sn.remaining \o chunk, saved, sent))

\* The loop of input after one iteration returned r.
handle_looped(sn, r) ==
  [sn EXCEPT !.pc = IF r.quit THEN "done" ELSE "loop",
             !.state = r.state,
             !.cmds = Tail(sn.cmds),
             !.last = r.events]

\* One iteration of the loop of input.
handle_loop(sn, local, sent) ==
  handle_looped(sn, input_command(sn.state, Head(sn.cmds), local, sent))

\* input returns false.
handle_return(sn) == [sn EXCEPT !.pc = "read", !.last = <<>>]

\* The peer closed, the bytes were not UTF-8, or the read failed.
handle_close(sn, why) == [sn EXCEPT !.pc = "done", !.last = <<CloseEvent(why)>>]

\* What the client of a session may send next.
ServiceChunks(st) ==
  {Line(L_DOT), Line(T_QUIT)}
    \cup (IF st.recipients = <<>>
            THEN {Line(L_EHLO) \o Line(L_MAIL) \o Line(L_RCPT_Y) \o Line(T_DATA)}
            ELSE {})

\* Session s goes on as sn; the other sessions stay as they are.
Becomes(s, sn) ==
  /\ pc' = [pc EXCEPT ![s] = sn.pc]
  /\ state' = [state EXCEPT ![s] = sn.state]
  /\ remaining' = [remaining EXCEPT ![s] = sn.remaining]
  /\ cmds' = [cmds EXCEPT ![s] = sn.cmds]
  /\ last' = [last EXCEPT ![s] = sn.last]

\* A session constructed over state that all sessions share.
Accept_shared_state(s) ==
  /\ pc[s] = "unborn"
  /\ pc' = [pc EXCEPT ![s] = "greet"]
  /\ state' = [u \in Sessions |-> DefaultState]
  /\ UNCHANGED <<remaining, cmds, last>>

\* listen accepts a connection, constructs its session and spawns handle.
Accept(s) ==
  /\ pc[s] = "unborn"
  /\ Becomes(s, NewSession)

SessionGreet(s) ==
  /\ pc[s] = "greet"
  /\ \E sent \in BOOLEAN : Becomes(s, handle_greet(SessionOf(s), sent))

SessionRead(s) ==
  /\ pc[s] = "read"
  /\ \E chunk \in ServiceChunks(state[s]), saved, sent \in BOOLEAN :
       /\ Becomes(s, handle_read(SessionOf(s), chunk, saved, sent))
       /\ Len(state'[s].data) <= MaxData
       /\ Len(remaining'[s]) <= MaxRemaining

SessionProcess(s) ==
  /\ pc[s] = "loop"
  /\ cmds[s] # <<>>
  /\ \E local, sent \in BOOLEAN :
       Becomes(s, handle_loop(SessionOf(s), local, sent))

SessionReturn(s) ==
  /\ pc[s] = "loop"
  /\ cmds[s] = <<>>
  /\ Becomes(s, handle_return(SessionOf(s)))

SessionClose(s) ==
  /\ pc[s] = "read"
  /\ Becomes(s, handle_close(SessionOf(s), "eof"))

InitService ==
  /\ pc = [s \in Sessions |-> "unborn"]
  /\ state = [s \in Sessions |-> DefaultState]
  /\ remaining = [s \in Sessions |-> <<>>]
  /\ cmds = [s \in Sessions |-> <<>>]
  /\ last = [s \in Sessions |-> <<>>]

NextService ==
  \/ \E s \in Sessions : Accept(s)
  \/ \E s \in Sessions : SessionGreet(s)
  \/ \E s \in Sessions : SessionRead(s)
  \/ \E s \in Sessions : SessionProcess(s)
  \/ \E s \in Sessions : SessionReturn(s)
  \/ \E s \in Sessions : SessionClose(s)

SpecService == InitService /\ [][NextService]_vars

(***************************************************************************)
(* What the claims speak of.                                               *)
(***************************************************************************)
\* The events of one kind among evs.
EventsOf(kind, evs) == SelectSeq(evs, LAMBDA e : e.ev = kind)

\* The last step was an iteration of the loop of input over the command name.
Processed(name) ==
  /\ Len(last) >= 1
  /\ last[1].ev = "command"
  /\ last[1].entry.command # None
  /\ last[1].entry.command.val.cmd = name

\* The loop of input is about to process the command name.
Processing(name) ==
  /\ pc = "loop"
  /\ cmds # <<>>
  /\ Head(cmds).command # None
  /\ Head(cmds).command.val.cmd = name

\* The last step was a read in which a DATA body was completed.
BodyCompleted ==
  /\ Len(last) = 3
  /\ last[1].ev = "input"
  /\ last[2].ev = "save"
  /\ last[3].ev = "send"

\* The guard of the DATA command on a state.
EnvelopeComplete(st) ==
  st.domain # None /\ st.from # None /\ st.recipients # <<>>

\* The replies the session may give to a parsed line.
RepliesTo(entry) ==
  IF entry.command = None THEN {"SyntaxError"}
  ELSE CASE entry.command.val.cmd = "HELO" -> {"Helo"}
         [] entry.command.val.cmd = "EHLO" -> {"Ehlo"}
         [] entry.command.val.cmd = "FROM" -> {"Ok", "OutOfSequence"}
         [] entry.command.val.cmd = "RCPT" ->
              {"Ok", "OutOfSequence", "TooManyRecipients", "RecipientNotLocal"}
         [] entry.command.val.cmd = "DATA" -> {"StartData", "OutOfSequence"}
         [] entry.command.val.cmd = "RSET" -> {"Ok"}
         [] entry.command.val.cmd = "QUIT" -> {"Goodbye"}

GuardFailures == {"OutOfSequence", "TooManyRecipients", "RecipientNotLocal"}

(***************************************************************************)
(* C1.  In every reachable state, receiving_data = true implies that       *)
(* domain is set, from is set and recipients is non-empty.                 *)
(***************************************************************************)
C1_ReceivingImpliesEnvelope ==
  state.receiving_data => EnvelopeComplete(state)

(***************************************************************************)
(* C2.  recipients never holds more than 100 mailboxes: with 100 held, a   *)
(* further RCPT TO is answered TooManyRecipients and leaves recipients     *)
(* unchanged, whatever the handler would answer.                           *)
(***************************************************************************)
C2_RecipientLimit ==
  /\ [](Len(state.recipients) <= 100)
  /\ [][(Processing("RCPT") /\ Len(state.recipients) = 100) =>
          /\ last'[Len(last')].resp = "TooManyRecipients"
          /\ state'.recipients = state.recipients]_vars

C2_Witness ==
  /\ Len(state.recipients) = 100
  /\ Processed("RCPT")
  /\ last[Len(last)] = SendEvent("TooManyRecipients", TRUE)

(***************************************************************************)
(* C3.  After a completed DATA body for which handler.save returned true,  *)
(* from is unset, recipients and data are empty, and domain is kept.       *)
(***************************************************************************)
C3_HandoffClearsEnvelope ==
  (BodyCompleted /\ last[2].ret /\ last[3].ok) =>
    /\ state.from = None
    /\ state.recipients = <<>>
    /\ state.data = <<>>
    /\ state.domain = last[2].arg.domain

(***************************************************************************)
(* C4.  Every time handler.save is invoked, the state it receives holds    *)
(* the envelope of the transaction: domain and from are set and            *)
(* recipients is non-empty.                                                *)
(***************************************************************************)
C4_SaveReceivesEnvelope ==
  \A k \in 1..Len(last) :
    last[k].ev = "save" => EnvelopeComplete(last[k].arg)

(***************************************************************************)
(* C5.  handler.save is invoked exactly once in a read that completes a    *)
(* DATA body (the decoder reports the end-of-data marker while             *)
(* receiving_data is true) and in no other step; the reply that follows    *)
(* is Ok iff save returned true and TransactionFailed iff it returned      *)
(* false.                                                                  *)
(***************************************************************************)
C5_SaveOncePerBody ==
  [][IF /\ Len(last') >= 1
        /\ last'[1].ev = "input"
        /\ state.receiving_data
        /\ parse_data_lines(last'[1].full_input).ended
       THEN /\ Len(last') = 3
            /\ last'[2].ev = "save"
            /\ last'[3].ev = "send"
            /\ (last'[3].resp = "Ok") <=> last'[2].ret
            /\ (last'[3].resp = "TransactionFailed") <=> ~last'[2].ret
       ELSE EventsOf("save", last') = <<>>]_vars

C5_Witness ==
  /\ BodyCompleted
  /\ ~last[2].ret
  /\ last[3] = SendEvent("TransactionFailed", TRUE)
  /\ pc = "loop"

(***************************************************************************)
(* C6.  Every line processed in command mode produces exactly one reply,   *)
(* a reply to that line, sent at the end of the step that processes the    *)
(* line: the lines are taken in input order, and any state change or       *)
(* handler call of the next line comes after that reply.                   *)
(***************************************************************************)
C6_OneReplyPerLine ==
  [][(pc = "loop" /\ cmds # <<>>) =>
       /\ last'[1] = CommandEvent(Head(cmds))
       /\ Len(EventsOf("send", last')) = 1
       /\ last'[Len(last')].ev = "send"
       /\ last'[Len(last')].resp \in RepliesTo(Head(cmds))
       /\ Len(EventsOf("command", last')) = 1
       /\ \/ pc' = "loop" /\ cmds' = Tail(cmds)
          \/ pc' = "done"]_vars

C6_Witness ==
  /\ pc = "loop"
  /\ Len(cmds) = 1
  /\ Len(last) = 2
  /\ last[1].ev = "command"
  /\ last[1].entry.command = None
  /\ last[2] = SendEvent("SyntaxError", TRUE)

(***************************************************************************)
(* C7.  A MAIL FROM, RCPT TO or DATA that is answered OutOfSequence,       *)
(* TooManyRecipients or RecipientNotLocal changes no field of the session  *)
(* state, and the session goes on with the next line when the reply was    *)
(* written.                                                                *)
(***************************************************************************)
C7_GuardFailureKeepsState ==
  [][(/\ pc = "loop"
      /\ cmds # <<>>
      /\ last'[Len(last')].ev = "send"
      /\ last'[Len(last')].resp \in GuardFailures) =>
       /\ state' = state
       /\ last'[Len(last')].ok => (pc' = "loop" /\ cmds' = Tail(cmds))]_vars

C7_Witness ==
  /\ Processed("RCPT")
  /\ last[Len(last)] = SendEvent("RecipientNotLocal", TRUE)
  /\ state.recipients # <<>>
  /\ pc = "loop"

(***************************************************************************)
(* C8.  RCPT TO(m) checks its guards in the order domain set, fewer than   *)
(* 100 recipients, handler.recipient_local(m): it is answered              *)
(* OutOfSequence, else TooManyRecipients, else RecipientNotLocal, else Ok  *)
(* with m appended at the end of recipients.                               *)
(***************************************************************************)
C8_RcptGuardOrder ==
  [][Processing("RCPT") =>
       LET m == Head(cmds).command.val.mailbox
           reply == last'[Len(last')]
       IN  IF state.domain = None
             THEN reply.resp = "OutOfSequence" /\ state' = state
           ELSE IF Len(state.recipients) >= 100
             THEN reply.resp = "TooManyRecipients" /\ state' = state
           ELSE IF LocalEvent(m, FALSE) \in {last'[k] : k \in 1..Len(last')}
             THEN reply.resp = "RecipientNotLocal" /\ state' = state
           ELSE /\ reply.resp = "Ok"
                /\ state' = [state EXCEPT !.recipients = Append(@, m)]]_vars

C8_Witness ==
  /\ Processed("RCPT")
  /\ last[Len(last)] = SendEvent("Ok", TRUE)
  /\ state.recipients = <<MailboxZ, MailboxY>>

(***************************************************************************)
(* C9, as claimed.  For every RCPT TO line the session processes, exactly  *)
(* one recipient_local call is made, with that mailbox.                    *)
(***************************************************************************)
C9_LocalOncePerRcpt ==
  Processed("RCPT") =>
    EventsOf("recipient_local", last) =
      <<LocalEvent(last[1].entry.command.val.mailbox, TRUE)>>
    \/ EventsOf("recipient_local", last) =
      <<LocalEvent(last[1].entry.command.val.mailbox, FALSE)>>

(***************************************************************************)
(* C9, as amended.  recipient_local is queried at most once per RCPT TO:   *)
(* exactly once, with that mailbox, when domain is set and fewer than 100  *)
(* recipients are held, and not at all otherwise; no other step queries    *)
(* it.                                                                     *)
(***************************************************************************)
C9_LocalWhenGuardsPass ==
  [][IF Processing("RCPT") /\ state.domain # None /\ Len(state.recipients) < 100
       THEN /\ Len(EventsOf("recipient_local", last')) = 1
            /\ EventsOf("recipient_local", last')[1].arg =
                 Head(cmds).command.val.mailbox
       ELSE EventsOf("recipient_local", last') = <<>>]_vars

C9_Witness ==
  /\ Processed("RCPT")
  /\ state.domain = None
  /\ last = <<last[1], SendEvent("OutOfSequence", TRUE)>>

(***************************************************************************)
(* C10.  The DATA command replies StartData and sets receiving_data        *)
(* exactly when domain is set, from is set and recipients is non-empty; in *)
(* every other state it replies OutOfSequence and leaves receiving_data    *)
(* false.                                                                  *)
(***************************************************************************)
C10_DataGuard ==
  [][Processing("DATA") =>
       IF EnvelopeComplete(state)
         THEN /\ last'[Len(last')].resp = "StartData"
              /\ state'.receiving_data
         ELSE /\ last'[Len(last')].resp = "OutOfSequence"
              /\ ~state'.receiving_data]_vars

\* handle has returned: the session is over.
Terminated == pc = "done"

\* The reply the last step sent last, if it sent one.
LastReply(evs) == evs[Len(evs)]

\* A reply was written, or its write was attempted, in evs.
Replied(evs) == Len(evs) >= 1 /\ LastReply(evs).ev = "send"

(***************************************************************************)
(* C11.  from is set only if domain is set: MAIL FROM before any HELO or   *)
(* EHLO is answered OutOfSequence and leaves from unset, and no step       *)
(* unsets domain once it is set.                                           *)
(***************************************************************************)
C11_FromImpliesDomain ==
  /\ [](state.from # None => state.domain # None)
  /\ [][/\ (Processing("FROM") /\ state.domain = None) =>
             /\ LastReply(last').resp = "OutOfSequence"
             /\ state'.from = None
        /\ state.domain # None => state'.domain # None]_vars

C11_Witness ==
  /\ Processed("FROM")
  /\ LastReply(last) = SendEvent("OutOfSequence", TRUE)
  /\ state.domain = None
  /\ state.from = None

(***************************************************************************)
(* C12.  From any state, RSET leaves from unset, recipients and data       *)
(* empty and domain as it was, and is answered Ok.                         *)
(***************************************************************************)
C12_ResetClearsTransaction ==
  [][Processing("RSET") =>
       /\ state'.from = None
       /\ state'.recipients = <<>>
       /\ state'.data = <<>>
       /\ state'.domain = state.domain
       /\ LastReply(last').resp = "Ok"]_vars

C12_Witness ==
  /\ Processed("RSET")
  /\ LastReply(last) = SendEvent("Ok", TRUE)
  /\ state.domain # None
  /\ state.from = None
  /\ state.recipients = <<>>

(***************************************************************************)
(* C13.  When handler.save returns false for a completed DATA body, the    *)
(* reply is TransactionFailed, the transaction is discarded (from unset,   *)
(* recipients and data empty) and the session continues in command mode.   *)
(***************************************************************************)
C13_RejectionDiscards ==
  (BodyCompleted /\ ~last[2].ret /\ last[3].ok) =>
    /\ last[3].resp = "TransactionFailed"
    /\ state.from = None
    /\ state.recipients = <<>>
    /\ state.data = <<>>
    /\ ~state.receiving_data
    /\ ~Terminated

(***************************************************************************)
(* C14.  QUIT is answered with Goodbye and leaves the state as it was, and *)
(* the session terminates after that send: the lines that follow QUIT in   *)
(* the same read stay unprocessed and nothing more is read, replied or     *)
(* passed to the handler.                                                  *)
(***************************************************************************)
C14_QuitTerminates ==
  /\ [][Processing("QUIT") =>
          /\ \E sent \in BOOLEAN :
               last' = <<CommandEvent(Head(cmds)), SendEvent("Goodbye", sent)>>
          /\ state' = state
          /\ cmds' = Tail(cmds)
          /\ remaining' = remaining
          /\ Terminated']_vars
  /\ [][~Terminated]_vars

C14_Witness ==
  /\ Terminated
  /\ Processed("QUIT")
  /\ LastReply(last) = SendEvent("Goodbye", TRUE)
  /\ cmds # <<>>

(***************************************************************************)
(* C15.  After a failed write of a reply, a read error, non-UTF-8 bytes or *)
(* EOF the session terminates: the failed write is the last thing the      *)
(* step does, and no step follows.  A read that fails or is not UTF-8      *)
(* produces no reply and no handler call.                                  *)
(***************************************************************************)
C15_TransportErrorTerminates ==
  /\ [][/\ \A k \in 1..Len(last') :
             (last'[k].ev = "send" /\ ~last'[k].ok) =>
               (k = Len(last') /\ Terminated')
        /\ \A k \in 1..Len(last') :
             last'[k].ev = "close" =>
               (Len(last') = 1 /\ Terminated' /\ state' = state)]_vars
  /\ [][~Terminated]_vars

C15_Witness ==
  /\ Terminated
  /\ Replied(last)
  /\ ~LastReply(last).ok
  /\ LastReply(last).resp # "Goodbye"
  /\ cmds # <<>>

(***************************************************************************)
(* C16.  The first reply of every session is Greeting, sent before any     *)
(* input is read; if that write fails the session terminates without       *)
(* reading input, changing state or calling the handler.                   *)
(***************************************************************************)
C16_GreetingFirst ==
  /\ [](pc = "greet" => (last = <<>> /\ state = DefaultState))
  /\ [][pc = "greet" =>
          /\ \E sent \in BOOLEAN :
               /\ last' = <<SendEvent("Greeting", sent)>>
               /\ Terminated' <=> ~sent
          /\ state' = state
          /\ remaining' = remaining]_vars
  /\ [][pc # "greet" =>
          \A k \in 1..Len(last') :
            last'[k].ev = "send" => last'[k].resp # "Greeting"]_vars

C16_Witness ==
  /\ Terminated
  /\ last = <<SendEvent("Greeting", FALSE)>>
  /\ state = DefaultState
  /\ remaining = <<>>

(***************************************************************************)
(* C17.  A complete line that is no command is answered SyntaxError and    *)
(* leaves the state unchanged; when the reply is written the session goes  *)
(* on with the lines after it.                                             *)
(***************************************************************************)
C17_SyntaxErrorContinues ==
  [][(pc = "loop" /\ cmds # <<>> /\ Head(cmds).command = None) =>
       /\ \E sent \in BOOLEAN :
            /\ last' = <<CommandEvent(Head(cmds)), SendEvent("SyntaxError", sent)>>
            /\ sent => pc' = "loop"
       /\ state' = state
       /\ remaining' = remaining
       /\ cmds' = Tail(cmds)]_vars

C17_Witness ==
  /\ pc = "loop"
  /\ Len(last) = 2
  /\ last[1].ev = "command"
  /\ last[1].entry.line = L_NOOP
  /\ last[2] = SendEvent("SyntaxError", TRUE)
  /\ Len(cmds) = 1
  /\ cmds[1].command # None

\* The last step decoded the wire form of body followed by tail, with no
\* body text held from earlier reads, and completed the body.
Decoded(body, tail) ==
  /\ BodyCompleted
  /\ last[1].full_input = EncodedBody(body) \o tail

(***************************************************************************)
(* C18.  DATA decoder round trip: a body of lines, dot-stuffed and         *)
(* followed by the marker line, decodes to ended = true and the body       *)
(* itself, one leading dot removed from each stuffed line, and the bytes   *)
(* after the marker are returned as tail.                                  *)
(***************************************************************************)
C18_RoundTrip ==
  \A body \in Bodies, t \in DataTails :
    Decoded(body, t.sent) =>
      /\ parse_data_lines(last[1].full_input) =
           [ended |-> TRUE, body |-> join_crlf(body), tail |-> t.sent]
      /\ last[2].arg.data = join_crlf(body)

(***************************************************************************)
(* C18 as amended: the bytes after the marker are returned as tail with    *)
(* every line terminator written as CR LF, so verbatim when they use CR LF *)
(* only.                                                                   *)
(***************************************************************************)
C18_RoundTripCrlfTail ==
  \A body \in Bodies, t \in DataTails :
    Decoded(body, t.sent) =>
      /\ parse_data_lines(last[1].full_input) =
           [ended |-> TRUE, body |-> join_crlf(body), tail |-> t.crlf]
      /\ last[2].arg.data = join_crlf(body)

C18_Witness ==
  /\ Decoded(<<<<".", "x">>, L_BODY>>, Line(T_RSET))
  /\ last[2].arg.data = <<".", "x">> \o CRLF \o L_BODY
  /\ last[3].ok
  /\ Len(cmds) = 1
  /\ cmds[1].command = Some([cmd |-> "RSET"])

\* The last step read in command mode: last[1].full_input went to the
\* buffered parser, whose result is in cmds and remaining.
ParsedRead ==
  /\ pc = "loop"
  /\ Len(last) = 1
  /\ last[1].ev = "input"

\* The positions of the line feeds of buf.
LineFeeds(buf) == {i \in 1..Len(buf) : buf[i] = LF}

\* buf from behind its last line feed on.
AfterLastLF(buf) ==
  SubSeq(buf,
         1 + (CHOOSE i \in LineFeeds(buf) \cup {0} :
                \A j \in LineFeeds(buf) : j <= i),
         Len(buf))

(***************************************************************************)
(* C19.  The buffered parser returns as tail the bytes after the last line *)
(* feed of its buffer: nothing for the empty buffer and for one that ends  *)
(* in a line feed, and a suffix without line feed appended to such a       *)
(* buffer comes back verbatim as tail, with the same parsed lines.         *)
(***************************************************************************)
C19_TailAfterLastLine ==
  ParsedRead =>
    /\ remaining = AfterLastLF(last[1].full_input)
    /\ (last[1].full_input = <<>>
          \/ last[1].full_input[Len(last[1].full_input)] = LF) =>
         /\ remaining = <<>>
         /\ \A sfx \in Suffixes :
              parse(last[1].full_input \o sfx) = [cmds |-> cmds, rem |-> sfx]

C19_Witness ==
  /\ ParsedRead
  /\ last[1].full_input = Line(L_HELO) \o Line(L_NOOP) \o <<"R", "S">>
  /\ remaining = <<"R", "S">>
  /\ Len(cmds) = 2

\* What the per-line grammar makes of the lines the client sends.
ExpectedCommand(line) ==
  CASE line = L_HELO -> Some([cmd |-> "HELO", domain |-> <<"a">>])
    [] line = L_MAIL ->
         Some([cmd |-> "FROM",
               mailbox |-> [local |-> <<"x">>, domain |-> <<"a">>]])
    [] line = T_RSET -> Some([cmd |-> "RSET"])
    [] OTHER -> None

\* seq without its k-th element.
Remove(seq, k) == SubSeq(seq, 1, k - 1) \o SubSeq(seq, k + 1, Len(seq))

(***************************************************************************)
(* C20.  The buffered parser returns one entry per complete line, in input *)
(* order; a line that fails the per-line grammar yields an entry with no   *)
(* command at its own position, and the other entries are what they are    *)
(* when the failing line is absent.                                        *)
(***************************************************************************)
C20_EntryPerLine ==
  ParsedRead =>
    /\ Len(cmds) = Cardinality(LineFeeds(last[1].full_input))
    /\ \A lines \in LineSeqs, sfx \in Suffixes :
         last[1].full_input = JoinLines(lines) \o sfx =>
           /\ Len(cmds) = Len(lines)
           /\ \A k \in 1..Len(lines) :
                /\ cmds[k].line = lines[k]
                /\ cmds[k].command = ExpectedCommand(lines[k])
                /\ cmds[k].command = None =>
                     parse(JoinLines(Remove(lines, k)) \o sfx).cmds =
                       Remove(cmds, k)

C20_Witness ==
  /\ ParsedRead
  /\ last[1].full_input = Line(L_NOOP) \o Line(L_MAIL) \o <<"R", "S">>
  /\ Len(cmds) = 2
  /\ cmds[1] = [line |-> L_NOOP, command |-> None]
  /\ cmds[2].command # None

(***************************************************************************)
(* C21.  remaining never contains a line feed, and so no CR LF: after a    *)
(* read it is empty or the unterminated end of the input just read.        *)
(***************************************************************************)
C21_RemainingHasNoLineEnd ==
  /\ LineFeeds(remaining) = {}
  /\ (pc = "loop" /\ Len(last) >= 1 /\ last[1].ev = "input") =>
       remaining \in {<<>>, AfterLastLF(last[1].full_input)}

C21_Witness ==
  /\ ParsedRead
  /\ LineFeeds(last[1].full_input) # {}
  /\ remaining = <<"R", "S">>

\* The last step read the single line given, in command mode.
HelloRead(line) ==
  /\ ParsedRead
  /\ last[1].full_input = Line(line)
  /\ Len(cmds) = 1

\* The command a verb makes of a domain.
Hello(t, d) ==
  Some([cmd |-> IF t = T_HELO THEN "HELO" ELSE "EHLO", domain |-> d])

(***************************************************************************)
(* C22.  A domain whose labels have interior hyphens is accepted and       *)
(* consumed in full; a label that starts or ends with a hyphen is not      *)
(* accepted.                                                               *)
(***************************************************************************)
C22_HyphenDomains ==
  \A t \in HelloVerbs :
    /\ \A d \in {D_HYPHEN, D_INNER_HYPHEN} :
         HelloRead(t \o d) =>
           /\ parse_domain(t \o d, Len(t) + 1) = Len(t \o d) + 1
           /\ cmds[1].command = Hello(t, d)
    /\ \A d \in {D_LEADING_HYPHEN, D_TRAILING_HYPHEN} :
         HelloRead(t \o d) => cmds[1].command = None

(***************************************************************************)
(* C23.  Domain parsing stops before a trailing dot: host. parses as host  *)
(* and leaves the dot, and a HELO or EHLO line whose domain is followed by *)
(* an unconsumed character is no command.                                  *)
(***************************************************************************)
C23_TrailingDot ==
  \A t \in HelloVerbs :
    /\ HelloRead(t \o D_TRAILING_DOT) =>
         /\ parse_domain(t \o D_TRAILING_DOT, Len(t) + 1) =
              Len(t \o D_PLAIN) + 1
         /\ cmds[1].command = None
    /\ HelloRead(t \o D_SPACE) => cmds[1].command = None
    /\ HelloRead(t \o D_PLAIN) => cmds[1].command = Hello(t, D_PLAIN)
    /\ HelloRead(t \o D_DOTTED) => cmds[1].command = Hello(t, D_DOTTED)

C23_Witness ==
  /\ HelloRead(T_EHLO \o D_TRAILING_DOT)
  /\ cmds[1] = [line |-> T_EHLO \o D_TRAILING_DOT, command |-> None]
  /\ state.domain = Some(D_PLAIN)

(***************************************************************************)
(* C24.  NotImplemented and InvalidRecipient are never sent: every reply   *)
(* is one of Greeting, Helo, Ehlo, Ok, StartData, Goodbye, SyntaxError,    *)
(* OutOfSequence, TooManyRecipients, RecipientNotLocal and                 *)
(* TransactionFailed.                                                      *)
(***************************************************************************)
C24_RepliesSent ==
  \A k \in 1..Len(last) :
    last[k].ev = "send" =>
      /\ last[k].resp \in Responses \ {"NotImplemented", "InvalidRecipient"}
      /\ last[k].resp \in
           {"Greeting", "Helo", "Ehlo", "Ok", "StartData", "Goodbye",
            "SyntaxError", "OutOfSequence", "TooManyRecipients",
            "RecipientNotLocal", "TransactionFailed"}

C24_Witness ==
  /\ Len(last) = 2
  /\ last[1] = CommandEvent([line |-> L_NOOP, command |-> None])
  /\ last[2] = SendEvent("SyntaxError", TRUE)

(***************************************************************************)
(* C26.  HELO or EHLO in any state, mid-transaction included, sets domain  *)
(* to the new value, is answered Helo or Ehlo respectively, and leaves     *)
(* from, recipients, data and receiving_data unchanged.                    *)
(***************************************************************************)
C26_HelloKeepsTransaction ==
  [][/\ Processing("HELO") =>
          /\ state' = [state EXCEPT !.domain = Some(Head(cmds).command.val.domain)]
          /\ LastReply(last').resp = "Helo"
     /\ Processing("EHLO") =>
          /\ state' = [state EXCEPT !.domain = Some(Head(cmds).command.val.domain)]
          /\ LastReply(last').resp = "Ehlo"]_vars

C26_Witness ==
  /\ Processed("EHLO")
  /\ LastReply(last) = SendEvent("Ehlo", TRUE)
  /\ state.domain = Some(<<"b">>)
  /\ state.from # None
  /\ state.from.val.domain = <<"a">>
  /\ state.recipients # <<>>

(***************************************************************************)
(* C27.  When a read in DATA mode holds the end-of-data marker and lines   *)
(* behind it, the reply to save is sent first and those lines are then     *)
(* processed as commands, in order, in the same read, none lost or         *)
(* duplicated; an unfinished line behind the marker is carried in          *)
(* remaining.                                                              *)
(***************************************************************************)
C27_TailProcessedInOrder ==
  /\ [](\A body \in Bodies, t \in DataTails :
          (Decoded(body, t.sent) /\ last[3].ok) =>
            /\ pc = "loop"
            /\ last[3].resp = save_response(last[2].ret)
            /\ Len(cmds) = Len(t.lines)
            /\ \A k \in 1..Len(cmds) : cmds[k].line = t.lines[k]
            /\ remaining = t.rest)
  /\ [][(pc = "loop" /\ cmds # <<>>) =>
          /\ last'[1] = CommandEvent(Head(cmds))
          /\ Replied(last')
          /\ cmds' = Tail(cmds)
          /\ remaining' = remaining]_vars

C27_Witness ==
  /\ pc = "loop"
  /\ cmds = <<>>
  /\ remaining = <<>>
  /\ last = <<CommandEvent([line |-> L_NOOP, command |-> None]),
              SendEvent("SyntaxError", TRUE)>>
  /\ ~state.receiving_data
  /\ state.from = None
  /\ state.domain # None

\* The session as it is between two reads.
Here == [state |-> state, remaining |-> remaining, events |-> <<>>, quit |-> FALSE]

\* What a peer and a handler see of a session, and the state it is left in.
Outcome(session) ==
  [state |-> session.state,
   events |-> SelectSeq(session.events,
                        LAMBDA e : e.ev \in {"send", "save", "recipient_local"}),
   quit |-> session.quit]

\* What the client goes on to send.
ClientStreams ==
  {Line(T_DATA) \o Line(T_RSET),
   Line(L_MAIL) \o Line(L_RCPT_Y),
   Line(T_RSET) \o Line(L_HELO)}

(***************************************************************************)
(* C28.  The session's behaviour does not depend on how the byte stream is *)
(* split into reads: a stream read at once and the same stream read in two *)
(* parts yield the same replies, the same handler calls and the same       *)
(* state.                                                                  *)
(***************************************************************************)
C28_ChunkingIndependent ==
  pc = "read" =>
    \A stream \in ClientStreams :
      \A k \in 1..(Len(stream) - 1) :
        Outcome(input(Here, stream)) =
          Outcome(input(input(Here, SubSeq(stream, 1, k)),
                        SubSeq(stream, k + 1, Len(stream))))

(***************************************************************************)
(* C29.  While receiving_data is true no line is taken as a command: no    *)
(* step changes domain, from or recipients, and the only reply is the one  *)
(* to handler.save when the body is complete; a body line QUIT does not    *)
(* end the session.                                                        *)
(***************************************************************************)
C29_NoCommandsWhileReceiving ==
  [][state.receiving_data =>
       /\ state'.domain = state.domain
       /\ state'.from = state.from
       /\ state'.recipients = state.recipients
       /\ \A k \in 1..Len(last') :
            last'[k].ev = "send" =>
              (k > 1 /\ last'[k - 1].ev = "save"
                 /\ last'[k].resp \in {"Ok", "TransactionFailed"})
       /\ \A k \in 1..Len(last') : last'[k].ev # "command"]_vars

\* A line that is a single dot is among the complete lines of buf.
HasMarkerLine(buf) ==
  \E i \in LineFeeds(buf) :
    /\ i >= 2
    /\ strip_cr(SubSeq(buf, 1, i - 1)) = L_DOT
         \/ \E j \in LineFeeds(buf) :
              j < i /\ strip_cr(SubSeq(buf, j + 1, i - 1)) = L_DOT

\* Every write in evs succeeded.
WritesSucceed(evs) == \A k \in 1..Len(evs) : evs[k].ev = "send" => evs[k].ok

\* A step that completes the body: one handler.save call, its reply, and,
\* the reply written, command mode.
CompletesBody(evs) ==
  /\ Len(EventsOf("save", evs)) = 1
  /\ Replied(evs)
  /\ LastReply(evs).resp \in {"Ok", "TransactionFailed"}
  /\ LastReply(evs).ok => ~state'.receiving_data

(***************************************************************************)
(* C30.  After DATA was answered StartData, the next line that is a single *)
(* dot leads to exactly one handler.save call, a reply Ok or               *)
(* TransactionFailed and, every write succeeding, to command mode, whether *)
(* it arrives in the read of the DATA command or in a later one.           *)
(***************************************************************************)
C30_MarkerEndsData ==
  [][/\ (pc = "read" /\ state.receiving_data /\ pc' # "read"
           /\ last'[1].ev = "input" /\ HasMarkerLine(last'[1].full_input)
           /\ WritesSucceed(last')) =>
          CompletesBody(last')
     /\ (pc = "loop" /\ cmds # <<>> /\ state.receiving_data
           /\ Head(cmds).line = L_DOT /\ WritesSucceed(last')) =>
          CompletesBody(last')]_vars

\* The steps handle may take from the session sn, whatever its client sends
\* and its handler and its peer answer.
StepsOf(sn) ==
  CASE sn.pc = "unborn" -> {NewSession}
    [] sn.pc = "greet" -> {handle_greet(sn, sent) : sent \in BOOLEAN}
    [] sn.pc = "read" ->
         {handle_read(sn, chunk, saved, sent) :
            chunk \in ServiceChunks(sn.state), saved \in BOOLEAN,
            sent \in BOOLEAN}
           \cup {handle_close(sn, "eof")}
    [] sn.pc = "loop" /\ sn.cmds # <<>> ->
         {handle_loop(sn, local, sent) : local \in BOOLEAN, sent \in BOOLEAN}
    [] sn.pc = "loop" /\ sn.cmds = <<>> -> {handle_return(sn)}
    [] OTHER -> {}

(***************************************************************************)
(* C25.  With several sessions running concurrently, every step is the     *)
(* step of one session: it leaves the state, buffers and replies of every  *)
(* other session as they are, and what the session becomes depends on its  *)
(* own state, input and handler answers only.  Every session starts from   *)
(* the default state.                                                      *)
(***************************************************************************)
C25_SessionsIndependent ==
  /\ [](\A s \in Sessions : pc[s] \in {"unborn", "greet"} =>
          state[s] = DefaultState)
  /\ [][\E s \in Sessions :
          /\ \A u \in Sessions \ {s} :
               /\ pc'[u] = pc[u]
               /\ state'[u] = state[u]
               /\ remaining'[u] = remaining[u]
               /\ cmds'[u] = cmds[u]
               /\ last'[u] = last[u]
          /\ [pc |-> pc'[s], state |-> state'[s], remaining |-> remaining'[s],
              cmds |-> cmds'[s], last |-> last'[s]] \in StepsOf(SessionOf(s))]_vars

C25_Witness ==
  /\ pc[1] = "read"
  /\ state[1].receiving_data
  /\ state[1].recipients # <<>>
  /\ pc[2] = "loop"
  /\ Len(last[2]) = 2
  /\ last[2][2] = SendEvent("Ehlo", TRUE)
  /\ state[2].from = None

(***************************************************************************)
(* C31.  In every state of a session that has not terminated and is in     *)
(* command mode (receiving_data false) data is empty.  Body bytes are      *)
(* added to data only in steps that start with receiving_data true; the    *)
(* step that completes a body and writes its reply leaves data empty, and  *)
(* so does the step that processes RSET.                                   *)
(***************************************************************************)
C31_CommandModeDataEmpty ==
  /\ [](~Terminated /\ ~state.receiving_data => state.data = <<>>)
  /\ [][(state'.data # state.data /\ state'.data # <<>>) =>
          state.receiving_data]_vars
  /\ [][(BodyCompleted' /\ last'[3].ok) =>
          (state'.data = <<>> /\ ~state'.receiving_data)]_vars
  /\ [][Processing("RSET") => state'.data = <<>>]_vars

\* A body with bytes in it was handed to handler.save, its reply written,
\* and the session went on in command mode.
C31_Witness ==
  /\ ~Terminated
  /\ BodyCompleted
  /\ last[2].arg.data # <<>>
  /\ last[2].arg.receiving_data
  /\ last[3].ok
  /\ ~state.receiving_data
  /\ state.data = <<>>

====
